---- MODULE Spec2Model ----
(***************************************************************************)
(* Model of src/lib/audit.ts: runAudit and the helpers it calls            *)
(* (estimateMetrics, hasMixedContentWarning, checkViewportMeta,            *)
(* analyzeImages, checkBrokenLinks, checkRedirects, calculateScore).       *)
(*                                                                         *)
(* One invocation of runAudit is a sequential async function.  Each await  *)
(* of a network call is one action of the model; the synchronous code that *)
(* follows an await up to the next one is part of the same action.  The    *)
(* outcomes of the network calls are the inputs of the model.              *)
(***************************************************************************)
EXTENDS Integers, Sequences, FiniteSets, TLC

VARIABLES
    targetUrl,   \* runAudit's argument
    page,        \* the document the target serves (read by res.text())
    pc,          \* position inside runAudit (or inside the function under test)
    result,      \* the AuditResult record
    html,        \* runAudit's local `html`
    origin,      \* runAudit's local `origin`
    anchors,     \* checkBrokenLinks: $('a'), as the list of href attributes
    limit,       \* checkBrokenLinks: parameter `limit`
    i,           \* checkBrokenLinks: loop index (0-based, as in the code)
    count,       \* checkBrokenLinks: `count`
    checked,     \* checkBrokenLinks: `checked`
    links,       \* checkBrokenLinks: `links`
    s1,          \* runAudit: the response `s1` of the /sitemap.xml probe, once it is there
    netlog,      \* every awaited network operation so far (a request, or the read of the
                 \* primary response's body), with its outcome
    hangs,       \* the URL whose auxiliary probe never settles, or "none"
    route        \* the API route's request, the number of its runAudit calls, its response

vars == <<targetUrl, page, pc, result, html, origin,
          anchors, limit, i, count, checked, links, s1, netlog, hangs, route>>

(***************************************************************************)
(* Values                                                                  *)
(***************************************************************************)

\* null / undefined of an optional field, and a present value
None == <<>>
Some(v) == <<v>>

Min(a, b) == IF a < b THEN a ELSE b
Max(a, b) == IF a > b THEN a ELSE b

\* Math.round on a non-negative number given in hundredths
Round100(x) == (x + 50) \div 100

\* Array.prototype.slice(0, n)
Slice(s, n) == SubSeq(s, 1, Min(n, Len(s)))

(***************************************************************************)
(* URLs.  A URL string is one of a finite universe of strings; the WHATWG   *)
(* URL parser is the table below.                                          *)
(***************************************************************************)

MkUrl(scheme, host, path) == [scheme |-> scheme, host |-> host, path |-> path]

\* absolute URL strings that `new URL(s)` accepts
AbsoluteUrls ==
    { "https://example.com/", "http://example.com/", "https://www.example.com/",
      "http://www.example.com/", "https://other.example/x", "http://insecure.example/x" }

\* new URL(s): the parsed URL, or None when the constructor throws
ParseUrl(s) ==
    CASE s = "https://example.com/"      -> Some(MkUrl("https", <<"example", "com">>, "/"))
      [] s = "http://example.com/"       -> Some(MkUrl("http", <<"example", "com">>, "/"))
      [] s = "https://www.example.com/"  -> Some(MkUrl("https", <<"www", "example", "com">>, "/"))
      [] s = "http://www.example.com/"   -> Some(MkUrl("http", <<"www", "example", "com">>, "/"))
      [] s = "https://other.example/x"   -> Some(MkUrl("https", <<"other", "example">>, "/x"))
      [] s = "http://insecure.example/x" -> Some(MkUrl("http", <<"insecure", "example">>, "/x"))
      [] OTHER -> None

\* URL.origin
OriginOf(u) == [scheme |-> u.scheme, host |-> u.host]

\* relative references that resolve against any base
RelativeRefs == { "/about", "/contact", "/pricing", "/blog", "#top", "#", "" }

\* a reference the URL parser rejects with every base
BadRef == "http://[bad"

\* new URL(href, base): the resolved URL, or None when the constructor throws
ResolveUrl(href, base) ==
    IF ParseUrl(href) # None THEN ParseUrl(href)
    ELSE IF href \in RelativeRefs /\ ParseUrl(base) # None
         THEN Some(MkUrl(ParseUrl(base)[1].scheme, ParseUrl(base)[1].host, href))
    ELSE None

\* URL.toString() of a URL whose path is "/"
UrlString(u) == CHOOSE s \in AbsoluteUrls : ParseUrl(s) = Some(u)

\* String.prototype.startsWith('https:') on a URL string
StartsWithHttps(s) == ParseUrl(s) # None /\ ParseUrl(s)[1].scheme = "https"

\* hostname.startsWith('www')
StartsWithWww(host) == host[1] = "www"

\* res.url.startsWith(origin), res.url an absolute URL string of the model
StartsWithOrigin(s, o) == ParseUrl(s) # None /\ OriginOf(ParseUrl(s)[1]) = o

safeOrigin(input) ==
    IF ParseUrl(input) # None THEN Some(OriginOf(ParseUrl(input)[1])) ELSE None

(***************************************************************************)
(* The document.  `page` is the body the target serves; the parsed tree    *)
(* $ is the page itself: its element inventories in document order.  An    *)
(* image is its src and alt attributes (None: attribute absent), an anchor *)
(* is its href attribute (None: absent).                                   *)
(***************************************************************************)

MkImg(src, alt) == [src |-> src, alt |-> alt]

\* String.prototype.includes on the src strings of the model
Includes(s, needle) ==
    <<s, needle>> \in
        { <<"a.webp", ".webp">>, <<"hero-large.webp", ".webp">>,
          <<"photo-original.webp", ".webp">>,
          <<"hero-large.webp", "large">>, <<"big.png", "big">>,
          <<"photo-original.webp", "original">> }

\* String.prototype.trim on the alt strings of the model
Trim(s) == IF s = "  " THEN "" ELSE s

\* $(el).attr('src') || ''
AttrOrEmpty(a) == IF a = None \/ a = Some("") THEN "" ELSE a[1]

\* !alt || String(alt).trim() === ''
AltMissing(img) == img.alt = None \/ img.alt = Some("") \/ Trim(img.alt[1]) = ""

\* the kinds of image a page of the model is built from; only the third raises no flag
ImageKinds ==
    << MkImg(Some("a.jpg"), None),
       MkImg(Some("a.webp"), Some("  ")),
       MkImg(Some("a.webp"), Some("logo")),
       MkImg(Some("hero-large.webp"), Some("hero")),
       MkImg(None, Some("logo")),
       MkImg(Some("big.png"), Some("")),
       MkImg(Some("a.webp"), None),
       MkImg(Some("photo-original.webp"), Some("photo")),
       MkImg(Some("http://insecure.example/a.jpg"), Some("remote")),
       MkImg(Some(""), Some("logo")) >>

\* an inventory of n images: kinds taken with stride a from kind b
ImgSeq(n, a, b) == [k \in 1..n |-> ImageKinds[((a * k + b) % Len(ImageKinds)) + 1]]

\* the href strings of the model: "" and fragments are skipped by the prober
HrefList ==
    << "/about", "#top", "/contact", "https://other.example/x", "",
       "/blog", "http://[bad", "/pricing", "http://insecure.example/x", "#" >>

Hrefs == { HrefList[k] : k \in 1..Len(HrefList) }

AnchorSeq(n, a, b) == [k \in 1..n |-> Some(HrefList[((a * k + b) % Len(HrefList)) + 1])]

\* String.prototype.startsWith('#')
StartsWithHash(href) == href \in { "#top", "#" }

\* the markup holds the text http:// followed by something other than localhost
HttpRef(s) == s \in { "http://insecure.example/x", "http://insecure.example/a.jpg",
                      "http://[bad" }

MkPage(len, rich, viewport, httpText, imgs, hrefs) ==
    [ len |-> len,
      title |-> IF rich THEN Some("Home") ELSE None,
      metaDescription |-> IF rich THEN Some("A page") ELSE None,
      h1 |-> IF rich THEN 1 ELSE 0,
      scripts |-> IF rich THEN 2 ELSE 0,
      inlineStyles |-> IF rich THEN 1 ELSE 0,
      viewport |-> viewport,
      httpText |-> httpText,
      imgs |-> imgs,
      hrefs |-> hrefs ]

\* the empty body ''
EmptyPage == MkPage(0, FALSE, FALSE, FALSE, <<>>, <<>>)

(***************************************************************************)
(* The synchronous helpers                                                 *)
(***************************************************************************)

\* estimateMetrics without the Math.max(..., 0) of ttfb
estimateMetrics_NoFloor(responseTimeMs, htmlSize, jitter) ==
    LET ttfb == (responseTimeMs - 50) * 100
        fcpBase == ttfb + Min(htmlSize, 500 * 100)
        lcp == fcpBase + jitter
    IN  [ttfb |-> ttfb, fcp |-> fcpBase, lcp |-> lcp]

\* estimateMetrics, in hundredths of a millisecond; jitter is Math.random() * 800
estimateMetrics(responseTimeMs, htmlSize, jitter) ==
    LET ttfb == Max(responseTimeMs - 50, 0) * 100
        fcpBase == ttfb + Min(htmlSize, 500 * 100)
        lcp == fcpBase + jitter
    IN  [ttfb |-> ttfb, fcp |-> fcpBase, lcp |-> lcp]

\* hasMixedContentWarning: the first pattern matches http:// anywhere in the markup
hasMixedContentWarning(doc) ==
    \/ doc.httpText
    \/ \E k \in 1..Len(doc.imgs) : HttpRef(AttrOrEmpty(doc.imgs[k].src))
    \/ \E k \in 1..Len(doc.hrefs) : HttpRef(AttrOrEmpty(doc.hrefs[k]))

checkViewportMeta(doc) == doc.viewport

\* src.slice(0, 80), href.slice(0, 80): every string of the model is shorter than 80
SliceStr(s) == s

\* the ImageIssue analyzeImages builds for one image
ImageIssueOf(img) ==
    LET src == AttrOrEmpty(img.src)
    IN  [ src |-> SliceStr(src),
          alt |-> AltMissing(img),
          missingFormats |-> ~Includes(src, ".webp"),
          oversized |-> Includes(src, "large") \/ Includes(src, "big")
                            \/ Includes(src, "original") ]

IssueFlagged(issue) == issue.alt \/ issue.missingFormats \/ issue.oversized

\* analyzeImages without the cut to ten entries
analyzeImages_NoCap(doc) ==
    LET all == [k \in 1..Len(doc.imgs) |-> ImageIssueOf(doc.imgs[k])]
    IN  SelectSeq(all, IssueFlagged)

analyzeImages(doc) ==
    LET all == [k \in 1..Len(doc.imgs) |-> ImageIssueOf(doc.imgs[k])]
        issues == SelectSeq(all, IssueFlagged)
    IN  Slice(issues, 10)

\* value ?? 0 of an optional number
OrZero(v) == IF v = None THEN 0 ELSE v[1]

\* calculateScore with the first deduction added instead of subtracted
calculateScore_SignSlip(r) ==
    LET s0 == 100
        s1a == IF ~r.isHttps THEN s0 + 15 ELSE s0
        s2a == IF ~r.hasViewport THEN s1a - 10 ELSE s1a
        s3a == IF r.imgWithoutAlt > 0 THEN s2a - Min(5, r.imgWithoutAlt) ELSE s2a
        s4a == IF Len(r.brokenLinks) > 0 THEN s3a - Min(10, Len(r.brokenLinks) * 2) ELSE s3a
        s5a == IF r.hasMixedContent THEN s4a - 10 ELSE s4a
        s6a == IF OrZero(r.responseTimeMs) > 3000 THEN s5a - 5 ELSE s5a
    IN  Max(0, s6a)

\* calculateScore with the broken-link deduction left uncapped
calculateScore_UncappedLinks(r) ==
    LET s0 == 100
        s1a == IF ~r.isHttps THEN s0 - 15 ELSE s0
        s2a == IF ~r.hasViewport THEN s1a - 10 ELSE s1a
        s3a == IF r.imgWithoutAlt > 0 THEN s2a - Min(5, r.imgWithoutAlt) ELSE s2a
        s4a == IF Len(r.brokenLinks) > 0 THEN s3a - Len(r.brokenLinks) * 2 ELSE s3a
        s5a == IF r.hasMixedContent THEN s4a - 10 ELSE s4a
        s6a == IF OrZero(r.responseTimeMs) > 3000 THEN s5a - 5 ELSE s5a
    IN  Max(0, s6a)

\* calculateScore with the latency deduction from 3000 ms on instead of above it
calculateScore_LatencyInclusive(r) ==
    LET s0 == 100
        s1a == IF ~r.isHttps THEN s0 - 15 ELSE s0
        s2a == IF ~r.hasViewport THEN s1a - 10 ELSE s1a
        s3a == IF r.imgWithoutAlt > 0 THEN s2a - Min(5, r.imgWithoutAlt) ELSE s2a
        s4a == IF Len(r.brokenLinks) > 0 THEN s3a - Min(10, Len(r.brokenLinks) * 2) ELSE s3a
        s5a == IF r.hasMixedContent THEN s4a - 10 ELSE s4a
        s6a == IF OrZero(r.responseTimeMs) >= 3000 THEN s5a - 5 ELSE s5a
    IN  Max(0, s6a)

calculateScore(r) ==
    LET s0 == 100
        s1a == IF ~r.isHttps THEN s0 - 15 ELSE s0
        s2a == IF ~r.hasViewport THEN s1a - 10 ELSE s1a
        s3a == IF r.imgWithoutAlt > 0 THEN s2a - Min(5, r.imgWithoutAlt) ELSE s2a
        s4a == IF Len(r.brokenLinks) > 0 THEN s3a - Min(10, Len(r.brokenLinks) * 2) ELSE s3a
        s5a == IF r.hasMixedContent THEN s4a - 10 ELSE s4a
        s6a == IF OrZero(r.responseTimeMs) > 3000 THEN s5a - 5 ELSE s5a
    IN  Max(0, s6a)

\* the record runAudit starts from
DefaultResult(url) ==
    [ url |-> url, status |-> None, responseTimeMs |-> None, contentType |-> None,
      title |-> None, metaDescription |-> None, h1Count |-> 0,
      totalImages |-> 0, imgWithoutAlt |-> 0, imageIssues |-> <<>>,
      totalLinks |-> 0, brokenLinks |-> <<>>, externalLinks |-> 0,
      scriptsCount |-> 0, inlineStylesCount |-> 0,
      hasRobots |-> FALSE, hasSitemap |-> FALSE,
      ttfbMs |-> 0, fcpMs |-> 0, lcpMs |-> 0,
      hasViewport |-> FALSE, responsive |-> FALSE,
      isHttps |-> FALSE, hasHsts |-> FALSE, hasMixedContent |-> FALSE,
      redirects |-> <<>>, score |-> 0, error |-> None ]

(***************************************************************************)
(* Inputs: the target, the document it serves and the answers of the       *)
(* network.                                                                *)
(***************************************************************************)

\* most images of a page
MaxImages == 12
\* most anchors of a page
MaxAnchors == 5

\* the argument of runAudit; the last one is no URL
TargetUrls == { "https://example.com/", "http://example.com/", "https://www.example.com/",
                "not a url" }

\* body length of a page with n images and m anchors: 1.49 ms of transfer for the bare
\* page, above the 500 ms cap from ten images on
PageLen(n, m) == 149 + 5000 * n + 100 * m

ImagePages ==
    { MkPage(PageLen(n, 0), FALSE, a = 1, b = 1, ImgSeq(n, a, b), <<>>) :
        n \in 0..MaxImages, a \in {1, 3}, b \in {0, 1} }

AnchorPages ==
    { MkPage(PageLen(1, n), TRUE, b = 0, FALSE, ImgSeq(1, 1, b), AnchorSeq(n, a, b)) :
        n \in 1..MaxAnchors, a \in {0, 1, 3}, b \in {0, 1, 5} }

Pages == {EmptyPage} \cup ImagePages \cup AnchorPages

\* end - start of the primary fetch, in ms
Latencies == {30, 3000, 3001}

\* Math.random() * 800, in hundredths of a millisecond
Jitters == {0, 79999}

\* res.url of the primary fetch: the target, or where a redirect led
FinalUrls(t) == {t, "https://example.com/"}

MkResponse(status, ms, url, hsts, contentType) ==
    [status |-> status, ms |-> ms, url |-> url, hsts |-> hsts, contentType |-> contentType]

\* the responses of the primary fetch
Responses(t) ==
    { MkResponse(200, ms, u, StartsWithHttps(u), Some("text/html")) :
        ms \in Latencies, u \in FinalUrls(t) }
    \cup { MkResponse(404, 30, t, TRUE, None) }

\* the outcomes of a GET probe: a 2xx status, another status, a rejected fetch
ProbeOutcomes == {"ok", "notok", "fail"}

\* what a HEAD request to a sampled link yields: a status, or "fail" (fetch rejects)
HeadOutcome(href) ==
    CASE href = "/about" -> Some(200)
      [] href = "/contact" -> Some(404)
      [] href = "/pricing" -> Some(500)
      [] href = "https://other.example/x" -> Some(204)
      [] href = "http://insecure.example/x" -> Some(400)
      [] OTHER -> None

Logged(kind, url, out) == [kind |-> kind, url |-> url, out |-> out]

\* runAudit called directly: no request of the API route
DirectCall == [request |-> None, calls |-> 0, response |-> None]

Init ==
    /\ targetUrl \in TargetUrls
    /\ page \in Pages
    /\ pc = "fetch"
    /\ result = DefaultResult(targetUrl)
    /\ html = EmptyPage
    /\ origin = safeOrigin(targetUrl)
    /\ anchors = <<>>
    /\ limit = 0
    /\ i = 0
    /\ count = 0
    /\ checked = {}
    /\ links = <<>>
    /\ s1 = None
    /\ netlog = <<>>
    /\ hangs = "none"
    /\ route = DirectCall

proberVars == <<anchors, limit, i, count, checked, links>>

(***************************************************************************)
(* runAudit                                                                *)
(***************************************************************************)

\* catch (err) { result.error = String(err?.message ?? err); return result; }
CatchPrimary(msg) ==
    /\ result' = [result EXCEPT !.error = Some(msg)]
    /\ pc' = "done"

\* await fetch(targetUrl, { redirect: 'follow' }) and the synchronous lines after it
Fetch ==
    /\ pc = "fetch"
    /\ \/ /\ netlog' = Append(netlog, Logged("primary", targetUrl, "fail"))
          /\ CatchPrimary("fetch failed")
       \/ /\ ParseUrl(targetUrl) # None
          /\ \E res \in Responses(targetUrl) :
                /\ netlog' = Append(netlog, Logged("primary", targetUrl, "ok"))
                /\ result' = [result EXCEPT !.status = Some(res.status),
                                            !.responseTimeMs = Some(res.ms),
                                            !.contentType = res.contentType,
                                            !.isHttps = StartsWithHttps(res.url),
                                            !.hasHsts = res.hsts]
          /\ pc' = "text"
    /\ UNCHANGED <<targetUrl, page, hangs, route, html, origin, proberVars, s1>>

\* html = await res.text(), then the performance estimate
\* result.ttfbMs = Math.round(metrics.ttfb), and so for fcp and lcp
WriteMetrics(metrics) ==
    [result EXCEPT !.ttfbMs = Round100(metrics.ttfb),
                   !.fcpMs = Round100(metrics.fcp),
                   !.lcpMs = Round100(metrics.lcp)]

ReadBody ==
    /\ pc = "text"
    /\ \/ /\ netlog' = Append(netlog, Logged("body", targetUrl, "fail"))
          /\ CatchPrimary("body unreadable")
          /\ html' = html
       \/ /\ netlog' = Append(netlog, Logged("body", targetUrl, "ok"))
          /\ html' = page
          /\ \E jitter \in Jitters :
                result' = WriteMetrics(
                              estimateMetrics(result.responseTimeMs[1], page.len, jitter))
          /\ pc' = "parse"
    /\ UNCHANGED <<targetUrl, page, hangs, route, origin, proberVars, s1>>

\* the anchors for which the externalLinks filter returns true
IsExternal(hrefAttr) ==
    LET href == AttrOrEmpty(hrefAttr)
        u == ResolveUrl(href, targetUrl)
    IN  /\ href # ""
        /\ u # None
        /\ OriginOf(u[1]) # (IF origin # None THEN origin[1] ELSE OriginOf(u[1]))

\* the fields the markup stage writes, from cheerio.load to the call of checkBrokenLinks
Analyzed(r, doc) ==
    [r EXCEPT !.title = doc.title,
              !.metaDescription = doc.metaDescription,
              !.h1Count = doc.h1,
              !.totalImages = Len(doc.imgs),
              !.imgWithoutAlt = Len(SelectSeq(doc.imgs, AltMissing)),
              !.imageIssues = analyzeImages(doc),
              !.totalLinks = Len(doc.hrefs),
              !.externalLinks = Len(SelectSeq(doc.hrefs, IsExternal)),
              !.scriptsCount = doc.scripts,
              !.inlineStylesCount = doc.inlineStyles,
              !.hasViewport = checkViewportMeta(doc),
              !.responsive = checkViewportMeta(doc),
              !.hasMixedContent = hasMixedContentWarning(doc)]

\* the sample limit runAudit passes to checkBrokenLinks
SampleLimit == 3

\* the markup stage's handler without its return: the code after the try block runs
CatchParse_FallsThrough(msg) ==
    /\ result' = [result EXCEPT !.error = Some(msg)]
    /\ pc' = "robots"

\* catch (err) of the markup stage: the same handler as the primary fetch's
CatchParse(msg) ==
    /\ result' = [result EXCEPT !.error = Some(msg)]
    /\ pc' = "done"

\* if (!html) return result; then the markup stage up to the first link probe
Parse ==
    /\ pc = "parse"
    /\ IF html.len = 0
       THEN /\ pc' = "done"
            /\ UNCHANGED <<result, proberVars>>
       ELSE \/ /\ CatchParse("parse failed")
               /\ UNCHANGED proberVars
            \/ /\ result' = Analyzed(result, html)
               /\ anchors' = html.hrefs
               /\ limit' = SampleLimit
               /\ i' = 0
               /\ count' = 0
               /\ checked' = {}
               /\ links' = <<>>
               /\ pc' = "links"
    /\ UNCHANGED <<targetUrl, page, hangs, route, html, origin, s1, netlog>>

(***************************************************************************)
(* checkBrokenLinks: one action per iteration of the loop                  *)
(***************************************************************************)

\* the loop condition without the test of count
LoopCond_NoCount == i < Len(anchors)

\* i < anchors.length && count < limit
LoopCond == i < Len(anchors) /\ count < limit

\* if (!href || href.startsWith('#') || checked.has(href)) continue;
Skipped(href) == href = "" \/ StartsWithHash(href) \/ href \in checked

LinkIssue(href, statusCode) ==
    [url |-> SliceStr(href), statusCode |-> statusCode, broken |-> TRUE]

\* the catch block without its count++
CatchLink_NoCount(href) ==
    /\ links' = Append(links, LinkIssue(href, None))
    /\ count' = count

\* catch (err) { links.push({ url, broken: true }); count++; }
CatchLink(href) ==
    /\ links' = Append(links, LinkIssue(href, None))
    /\ count' = count + 1

\* res.status >= 400
IsBrokenStatus(status) == status >= 400

\* the probe of this URL is awaited for ever
Hangs(url) == hangs = url

\* the iteration at this href awaits a HEAD request that never settles
LinkProbeHangs(href) ==
    ~Skipped(href) /\ ResolveUrl(href, targetUrl) # None /\ Hangs(href)

LinkStepAt(at) ==
    /\ pc = at
    /\ LoopCond
    /\ ~LinkProbeHangs(AttrOrEmpty(anchors[i + 1]))
    /\ LET href == AttrOrEmpty(anchors[i + 1])
           base == targetUrl
       IN  IF Skipped(href)
           THEN UNCHANGED <<checked, links, count, netlog>>
           ELSE /\ checked' = checked \cup {href}
                /\ IF ResolveUrl(href, base) = None
                   THEN /\ CatchLink(href)
                        /\ netlog' = netlog
                   ELSE IF HeadOutcome(href) = None
                   THEN /\ CatchLink(href)
                        /\ netlog' = Append(netlog, Logged("link", href, "fail"))
                   ELSE /\ links' = IF IsBrokenStatus(HeadOutcome(href)[1])
                                    THEN Append(links, LinkIssue(href, HeadOutcome(href)))
                                    ELSE links
                        /\ count' = count + 1
                        /\ netlog' = Append(netlog,
                                Logged("link", href,
                                       IF HeadOutcome(href)[1] \in 200..299
                                       THEN "ok" ELSE "notok"))
    /\ i' = i + 1
    /\ UNCHANGED <<targetUrl, page, hangs, route, pc, result, html, origin, anchors, limit, s1>>

LinkStep == LinkStepAt("links")

\* return links; result.brokenLinks = ...; if (!origin) origin = safeOrigin(targetUrl) || ''
LinksReturn ==
    /\ pc = "links"
    /\ ~LoopCond
    /\ result' = [result EXCEPT !.brokenLinks = links]
    /\ origin' = IF origin = None THEN safeOrigin(targetUrl) ELSE origin
    /\ pc' = "robots"
    /\ UNCHANGED <<targetUrl, page, hangs, route, html, proberVars, s1, netlog>>

(***************************************************************************)
(* The robots and sitemap probes: one try block, three awaits              *)
(***************************************************************************)

\* the resource probes without their try block: the rejection leaves runAudit
CatchResources_Rethrows ==
    /\ pc' = "threw"
    /\ UNCHANGED <<result, s1>>

\* the resource probes' handler written like the two handlers before it
CatchResources_Fatal ==
    /\ result' = [result EXCEPT !.error = Some("fetch failed")]
    /\ pc' = "done"
    /\ s1' = s1

\* catch (err) { /* ignore network errors for these auxiliary checks */ }
CatchResources ==
    /\ pc' = "redirects"
    /\ UNCHANGED <<result, s1>>

\* const r = await fetch(`${origin}/robots.txt`); result.hasRobots = r.ok;
Robots ==
    /\ pc = "robots"
    /\ ~(origin # None /\ Hangs("/robots.txt"))
    /\ IF origin = None
       THEN /\ pc' = "redirects"
            /\ UNCHANGED <<result, s1, netlog>>
       ELSE \E out \in ProbeOutcomes :
                /\ netlog' = Append(netlog, Logged("robots", "/robots.txt", out))
                /\ IF out = "fail"
                   THEN CatchResources
                   ELSE /\ result' = [result EXCEPT !.hasRobots = (out = "ok")]
                        /\ pc' = "sitemap"
                        /\ s1' = s1
    /\ UNCHANGED <<targetUrl, page, hangs, route, html, origin, proberVars>>

\* const s1 = await fetch(`${origin}/sitemap.xml`)
Sitemap ==
    /\ pc = "sitemap"
    /\ ~Hangs("/sitemap.xml")
    /\ \E out \in ProbeOutcomes :
            /\ netlog' = Append(netlog, Logged("sitemap", "/sitemap.xml", out))
            /\ IF out = "fail"
               THEN CatchResources
               ELSE /\ s1' = Some([ok |-> (out = "ok")])
                    /\ pc' = "sitemap_index"
                    /\ result' = result
    /\ UNCHANGED <<targetUrl, page, hangs, route, html, origin, proberVars>>

\* const s2 = await fetch(`${origin}/sitemap_index.xml`); result.hasSitemap = s1.ok || s2.ok;
SitemapIndex ==
    /\ pc = "sitemap_index"
    /\ ~Hangs("/sitemap_index.xml")
    /\ \E out \in ProbeOutcomes :
            /\ netlog' = Append(netlog, Logged("sitemap_index", "/sitemap_index.xml", out))
            /\ IF out = "fail"
               THEN CatchResources
               ELSE /\ result' = [result EXCEPT !.hasSitemap = (s1[1].ok \/ out = "ok")]
                    /\ pc' = "redirects"
                    /\ s1' = s1
    /\ UNCHANGED <<targetUrl, page, hangs, route, html, origin, proberVars>>

(***************************************************************************)
(* checkRedirects and the score                                            *)
(***************************************************************************)

\* www.hostname = `www.${parsed.hostname}` when the host does not start with www
WwwVariant(parsed) ==
    IF ~StartsWithWww(parsed.host)
    THEN [parsed EXCEPT !.host = <<"www">> \o parsed.host]
    ELSE parsed

\* res.url of the www probe: the www URL itself, or where its redirects led
WwwFinalUrls(www) == { UrlString(www), targetUrl, "https://other.example/x" }

\* the condition with || in place of &&
Inconsistent_EitherTest(finalUrl, www, parsed) ==
    finalUrl # UrlString(www) \/ ~StartsWithOrigin(finalUrl, OriginOf(parsed))

\* res.url !== www.toString() && !res.url.startsWith(parsed.origin)
Inconsistent(finalUrl, www, parsed) ==
    finalUrl # UrlString(www) /\ ~StartsWithOrigin(finalUrl, OriginOf(parsed))

RedirectIssue == [type |-> "www", message |-> "Inconsistent www redirect behavior"]

\* the inner catch {} of checkRedirects: the rejected probe leaves issues as it is
CatchRedirectProbe(issues) == issues

\* checkRedirects awaits a www probe that never settles
WwwProbeHangs ==
    /\ ParseUrl(targetUrl) # None
    /\ WwwVariant(ParseUrl(targetUrl)[1]).host # ParseUrl(targetUrl)[1].host
    /\ Hangs(UrlString(WwwVariant(ParseUrl(targetUrl)[1])))

\* result.redirects = await checkRedirects(targetUrl)
Redirects ==
    /\ pc = "redirects"
    /\ ~WwwProbeHangs
    /\ IF ParseUrl(targetUrl) = None
       THEN /\ result' = [result EXCEPT !.redirects = <<>>]
            /\ netlog' = netlog
       ELSE LET parsed == ParseUrl(targetUrl)[1]
                www == WwwVariant(parsed)
            IN  IF www.host # parsed.host
                THEN \/ /\ netlog' = Append(netlog, Logged("www", UrlString(www), "fail"))
                        /\ result' = [result EXCEPT !.redirects = CatchRedirectProbe(<<>>)]
                     \/ \E finalUrl \in WwwFinalUrls(www) :
                            /\ netlog' = Append(netlog, Logged("www", UrlString(www), finalUrl))
                            /\ result' = [result EXCEPT !.redirects =
                                            IF Inconsistent(finalUrl, www, parsed)
                                            THEN <<RedirectIssue>> ELSE <<>>]
                ELSE /\ result' = [result EXCEPT !.redirects = <<>>]
                     /\ netlog' = netlog
    /\ pc' = "score"
    /\ UNCHANGED <<targetUrl, page, hangs, route, html, origin, proberVars, s1>>

\* result.score = calculateScore(result); return result;
Score ==
    /\ pc = "score"
    /\ result' = [result EXCEPT !.score = calculateScore(result)]
    /\ pc' = "done"
    /\ UNCHANGED <<targetUrl, page, hangs, route, html, origin, proberVars, s1, netlog>>

Next ==
    \/ Fetch
    \/ ReadBody
    \/ Parse
    \/ LinkStep
    \/ LinksReturn
    \/ Robots
    \/ Sitemap
    \/ SitemapIndex
    \/ Redirects
    \/ Score

Spec == Init /\ [][Next]_vars

\* every awaited call settles: a pending step of the invocation is eventually taken
FairSpec == Spec /\ WF_vars(Next)

(***************************************************************************)
(* runAudit with one auxiliary endpoint that accepts the request and never *)
(* answers. No await of the function has a timeout (lines 136, 181, 325,   *)
(* 331, 334), so the step that awaits it is never taken.                   *)
(***************************************************************************)
HangTargets == { "/contact", "/robots.txt", "/sitemap.xml", "/sitemap_index.xml",
                 "https://www.example.com/" }

HangPages == { MkPage(PageLen(0, n), TRUE, TRUE, FALSE, <<>>, AnchorSeq(n, 1, 0)) :
                   n \in 1..MaxAnchors }

HangInit ==
    /\ targetUrl = "https://example.com/"
    /\ page \in HangPages
    /\ pc = "fetch"
    /\ result = DefaultResult(targetUrl)
    /\ html = EmptyPage
    /\ origin = safeOrigin(targetUrl)
    /\ anchors = <<>>
    /\ limit = 0
    /\ i = 0
    /\ count = 0
    /\ checked = {}
    /\ links = <<>>
    /\ s1 = None
    /\ netlog = <<>>
    /\ hangs \in HangTargets
    /\ route = DirectCall

\* every step whose awaited calls settle is eventually taken
HangSpec == HangInit /\ [][Next]_vars /\ WF_vars(Next)

(***************************************************************************)
(* estimateMetrics on its own: any latency and body length, then the       *)
(* estimate and the three rounded figures of lines 260-263                 *)
(***************************************************************************)
\* largest latency, in ms, of the dense range of latencies
MaxLatency == 60

MetricLatencies == 0..MaxLatency \cup {1200, 3001}

\* body lengths around the rounding steps and the 500 ms cap
BodyLengths == {0, 49, 50, 149, 150, 5000, 49949, 49950, 50000, 60000}

\* Math.random() * 800 in hundredths: both ends, the middle and the rounding steps
MetricJitters == {0, 49, 50, 40000, 79950, 79999}

MetricsInit ==
    /\ targetUrl = "https://example.com/"
    /\ page \in { [EmptyPage EXCEPT !.len = n] : n \in BodyLengths }
    /\ pc = "estimate"
    /\ result \in { [DefaultResult(targetUrl) EXCEPT !.status = Some(200),
                                                      !.responseTimeMs = Some(ms)] :
                        ms \in MetricLatencies }
    /\ html = EmptyPage
    /\ origin = safeOrigin(targetUrl)
    /\ anchors = <<>>
    /\ limit = 0
    /\ i = 0
    /\ count = 0
    /\ checked = {}
    /\ links = <<>>
    /\ s1 = None
    /\ netlog = <<>>
    /\ hangs = "none"
    /\ route = DirectCall

\* const metrics = estimateMetrics(result.responseTimeMs, html.length); and the three
\* assignments that round it
EstimateStep ==
    /\ pc = "estimate"
    /\ \E jitter \in MetricJitters :
          result' = WriteMetrics(
                        estimateMetrics(result.responseTimeMs[1], page.len, jitter))
    /\ pc' = "estimated"
    /\ UNCHANGED <<targetUrl, page, hangs, route, html, origin, proberVars, s1, netlog>>

MetricsSpec == MetricsInit /\ [][EstimateStep]_vars

(***************************************************************************)
(* The API route: POST validates the request's url and calls runAudit      *)
(***************************************************************************)
\* a JSON value, as far as `!url`, `typeof url` and `new URL(url)` look at it
JsValue(type, num, bool, str) == [type |-> type, num |-> num, bool |-> bool, str |-> str]
Undefined == JsValue("undefined", 0, FALSE, "")
JsString(str) == JsValue("string", 0, FALSE, str)

\* `!v` is false
Truthy(v) ==
    CASE v.type \in {"undefined", "null"} -> FALSE
      [] v.type = "number" -> v.num # 0
      [] v.type = "boolean" -> v.bool
      [] v.type = "string" -> v.str # ""
      [] OTHER -> TRUE

\* `typeof v`
TypeOf(v) == IF v.type \in {"null", "array"} THEN "object" ELSE v.type

UrlValues ==
    { Undefined, JsValue("null", 0, FALSE, ""),
      JsValue("number", 0, FALSE, ""), JsValue("number", 42, FALSE, ""),
      JsValue("boolean", 0, FALSE, ""), JsValue("boolean", 0, TRUE, ""),
      JsValue("object", 0, FALSE, ""), JsValue("array", 0, FALSE, "https://example.com/"),
      JsString(""), JsString("not a url"), JsString("/about"), JsString(BadRef),
      JsString("https://example.com/"), JsString("http://example.com/"),
      JsString("https://www.example.com/") }

\* what request.json() yields: it rejects ("invalid"), or gives a value that is no
\* object with members (null), or an object whose url member is the value (absent:
\* undefined)
MkBody(kind, url) == [kind |-> kind, url |-> url]
RequestBodies ==
    { MkBody("invalid", Undefined), MkBody("null", Undefined) }
        \cup { MkBody("object", v) : v \in UrlValues }

\* `body?.url`
UrlOf(body) == IF body.kind = "object" THEN body.url ELSE Undefined

RoutePages == { EmptyPage,
                MkPage(PageLen(1, 3), TRUE, TRUE, FALSE, ImgSeq(1, 1, 0), AnchorSeq(3, 1, 0)) }

MkReply(status, errorBody) == [status |-> status, errorBody |-> errorBody]

RouteInit ==
    /\ route \in { [request |-> Some(b), calls |-> 0, response |-> None] :
                       b \in RequestBodies }
    /\ page \in RoutePages
    /\ pc = "route"
    /\ targetUrl = ""
    /\ result = DefaultResult("")
    /\ html = EmptyPage
    /\ origin = None
    /\ anchors = <<>>
    /\ limit = 0
    /\ i = 0
    /\ count = 0
    /\ checked = {}
    /\ links = <<>>
    /\ s1 = None
    /\ netlog = <<>>
    /\ hangs = "none"

\* the route answers without calling runAudit
Reply(status, errorBody) ==
    /\ route' = [route EXCEPT !.response = Some(MkReply(status, Some(errorBody)))]
    /\ pc' = "responded"
    /\ UNCHANGED <<targetUrl, result, origin>>

\* `await runAudit(url)`: the invocation starts with its default report
CallRunAudit(url) ==
    /\ route' = [route EXCEPT !.calls = @ + 1]
    /\ targetUrl' = url
    /\ result' = DefaultResult(url)
    /\ origin' = safeOrigin(url)
    /\ pc' = "fetch"

\* POST without the `new URL(url)` test
RoutePost_NoUrlCheck ==
    /\ pc = "route"
    /\ LET body == route.request[1]
           url == UrlOf(body)
       IN  IF body.kind = "invalid"
           THEN Reply(500, "Unexpected token")
           ELSE IF ~Truthy(url) \/ TypeOf(url) # "string"
           THEN Reply(400, "Missing or invalid url in request body")
           ELSE CallRunAudit(url.str)
    /\ UNCHANGED <<page, hangs, html, proberVars, s1, netlog>>

RoutePost ==
    /\ pc = "route"
    /\ LET body == route.request[1]
           url == UrlOf(body)
       IN  IF body.kind = "invalid"
           THEN Reply(500, "Unexpected token")
           ELSE IF ~Truthy(url) \/ TypeOf(url) # "string"
           THEN Reply(400, "Missing or invalid url in request body")
           ELSE IF ParseUrl(url.str) = None
           THEN Reply(400, "Invalid URL")
           ELSE CallRunAudit(url.str)
    /\ UNCHANGED <<page, hangs, html, proberVars, s1, netlog>>

\* runAudit has returned: `NextResponse.json(result)`
RouteRespond ==
    /\ pc = "done"
    /\ route.request # None
    /\ route.response = None
    /\ route' = [route EXCEPT !.response = Some(MkReply(200, None))]
    /\ pc' = "responded"
    /\ UNCHANGED <<targetUrl, page, hangs, result, html, origin, proberVars, s1, netlog>>

RouteNext == Next \/ RoutePost \/ RouteRespond

RouteSpec == RouteInit /\ [][RouteNext]_vars

(***************************************************************************)
(* calculateScore on its own: any pre-score report, then the scorer        *)
(***************************************************************************)

\* most images without alt text, and most broken-link entries, of a pre-score report
MaxAlt == 6
MaxBroken == 6

\* a brokenLinks collection of n entries
BrokenSeq(n) == [k \in 1..n |-> LinkIssue("/contact", Some(404))]

PreScoreReports ==
    { [DefaultResult("https://example.com/") EXCEPT
          !.isHttps = f[1], !.hasViewport = f[2], !.hasMixedContent = f[3],
          !.hasHsts = f[4], !.hasRobots = f[4], !.responsive = f[2],
          !.imgWithoutAlt = a, !.totalImages = a + h, !.h1Count = h, !.scriptsCount = 2 * h,
          !.brokenLinks = BrokenSeq(b), !.totalLinks = b + h,
          !.responseTimeMs = ms, !.status = IF ms = None THEN None ELSE Some(200)] :
        f \in BOOLEAN \X BOOLEAN \X BOOLEAN \X BOOLEAN,
        a \in 0..MaxAlt, b \in 0..MaxBroken, h \in {0, 1},
        ms \in {None, Some(1200), Some(3000), Some(3001)} }

ScorerInit ==
    /\ targetUrl = "https://example.com/"
    /\ page = EmptyPage
    /\ pc = "score"
    /\ result \in PreScoreReports
    /\ html = EmptyPage
    /\ origin = safeOrigin(targetUrl)
    /\ anchors = <<>>
    /\ limit = 0
    /\ i = 0
    /\ count = 0
    /\ checked = {}
    /\ links = <<>>
    /\ s1 = None
    /\ netlog = <<>>
    /\ hangs = "none"
    /\ route = DirectCall

ScorerSpec == ScorerInit /\ [][Score]_vars

(***************************************************************************)
(* checkBrokenLinks on its own, with any limit, beside runAudit            *)
(***************************************************************************)

\* largest limit, and most anchors, of a direct call of checkBrokenLinks
MaxLimit == 4
MaxProbeAnchors == 4

\* the href attributes of a direct call: absent, empty, a fragment, healthy, status 404,
\* unreachable, unresolvable
ProbeAttrs == { None, Some(""), Some("#top"), Some("/about"), Some("/contact"),
                Some("/blog"), Some(BadRef) }

AnchorLists == UNION { [1..n -> ProbeAttrs] : n \in 0..MaxProbeAnchors }

ProberInit ==
    /\ targetUrl = "https://example.com/"
    /\ page = EmptyPage
    /\ pc = "probe"
    /\ result = DefaultResult(targetUrl)
    /\ html = EmptyPage
    /\ origin = safeOrigin(targetUrl)
    /\ anchors \in AnchorLists
    /\ limit \in 0..MaxLimit
    /\ i = 0
    /\ count = 0
    /\ checked = {}
    /\ links = <<>>
    /\ s1 = None
    /\ netlog = <<>>
    /\ hangs = "none"
    /\ route = DirectCall

\* one iteration of the loop in a direct call
ProberStep == LinkStepAt("probe")

\* return links;
ProberReturn ==
    /\ pc = "probe"
    /\ ~LoopCond
    /\ pc' = "returned"
    /\ UNCHANGED <<targetUrl, page, hangs, route, result, html, origin, proberVars, s1, netlog>>

LinkNext == Next \/ ProberStep \/ ProberReturn

LinkSpec == (Init \/ ProberInit) /\ [][LinkNext]_vars

(***************************************************************************)
(* Properties                                                              *)
(***************************************************************************)

\* the network operations of the given kinds that have been awaited so far
Ops(kinds) == { k \in 1..Len(netlog) : netlog[k].kind \in kinds }

Failed(kinds) == \E k \in Ops(kinds) : netlog[k].out = "fail"

\* the primary fetch failed: the request was rejected or the body could not be read
PrimaryFailed == Failed({"primary", "body"})

AuxKinds == {"link", "robots", "sitemap", "sitemap_index", "www"}

\* C1 (as claimed): when the primary fetch fails, the returned report has error set,
\* score 0 and every other field at the default it was initialised with.
C1_FetchFailureLeavesDefaults ==
    (pc = "done" /\ PrimaryFailed) =>
        /\ result.error # None
        /\ result.score = 0
        /\ [result EXCEPT !.error = None] = DefaultResult(targetUrl)

\* C2: once error is set the invocation has returned: error is only ever set together
\* with the return, the score is still its initial 0 (the scorer never ran), and no
\* step, so no network operation and no write to the report, follows.
C2_ErrorHaltsPipeline ==
    /\ [](result.error # None => (pc = "done" /\ result.score = 0))
    /\ [][result.error # None => (netlog' = netlog /\ result' = result /\ pc' = pc)]_vars
    /\ [][result.error' # None =>
            (pc' = "done" /\ Ops(AuxKinds)' = Ops(AuxKinds) /\ result'.score = 0)]_vars

\* a markup-parsing failure on a page with anchors: the report is returned, no link probed
C2_Witness ==
    /\ pc = "done"
    /\ result.error = Some("parse failed")
    /\ Len(html.hrefs) > 0
    /\ Ops(AuxKinds) = {}

\* C3: every invocation returns (under the assumption that every awaited call settles),
\* it returns once, the report's url is the input, and no exception leaves runAudit.
C3_AlwaysReturnsOneReport ==
    /\ <>(pc = "done")
    /\ [](pc # "threw")
    /\ [](pc = "done" => result.url = targetUrl)
    /\ [][pc # "done"]_vars

\* a returned report of an invocation in which auxiliary probes failed
C3_Witness ==
    /\ pc = "done"
    /\ result.url = targetUrl
    /\ Failed({"link"}) /\ Failed({"robots"}) /\ Failed({"www"})

\* C4: the score of every returned report is an integer between 0 and 100.
C4_ScoreInRange == pc = "done" => result.score \in 0..100

\* a returned report whose score the scorer computed, with deductions
C4_Witness == pc = "done" /\ result.error = None /\ result.score \in 1..60

\* the six conditions the scorer deducts for
AllSixDeductions(r) ==
    /\ ~r.isHttps
    /\ ~r.hasViewport
    /\ r.imgWithoutAlt > 0
    /\ Len(r.brokenLinks) > 0
    /\ r.hasMixedContent
    /\ r.responseTimeMs # None /\ r.responseTimeMs[1] > 3000

\* C5 (as claimed): a report that triggers all six deductions is scored 0.
C5_WorstCaseScoresZero ==
    (pc = "done" /\ AllSixDeductions(result)) => result.score = 0

\* C5 (amended): a report that triggers all six deductions is scored
\* 100 - 15 - 10 - min(5, imgWithoutAlt) - min(10, 2 * brokenLinks) - 10 - 5, which lies
\* between 45 and 57: never 0, never negative.
C5_WorstCaseScore ==
    (pc = "done" /\ AllSixDeductions(result)) =>
        /\ result.score = 60 - Min(5, result.imgWithoutAlt)
                              - Min(10, 2 * Len(result.brokenLinks))
        /\ result.score \in 45..57

\* the worst case: all six deductions, each at its cap
C5_Witness ==
    /\ pc = "done"
    /\ AllSixDeductions(result)
    /\ result.imgWithoutAlt > 5
    /\ Len(result.brokenLinks) > 5
    /\ result.score = 45

\* the sum D of the deductions, from the six fields alone
Deductions(isHttps, hasViewport, imgWithoutAlt, brokenCount, hasMixedContent, latency) ==
    (IF isHttps THEN 0 ELSE 15)
    + (IF hasViewport THEN 0 ELSE 10)
    + Min(5, imgWithoutAlt)
    + Min(10, 2 * brokenCount)
    + (IF hasMixedContent THEN 10 ELSE 0)
    + (IF latency # None /\ latency[1] > 3000 THEN 5 ELSE 0)

ScoreFormula(r) ==
    Max(0, 100 - Deductions(r.isHttps, r.hasViewport, r.imgWithoutAlt, Len(r.brokenLinks),
                            r.hasMixedContent, r.responseTimeMs))

\* the report of the scenario: secure, viewport present, one image without alt, no broken
\* link, mixed content, latency 1200 ms
IsScenario(r) ==
    /\ r.isHttps /\ r.hasViewport /\ r.imgWithoutAlt = 1 /\ r.brokenLinks = <<>>
    /\ r.hasMixedContent /\ r.responseTimeMs = Some(1200)

\* C6: the scorer returns max(0, 100 - D), D the sum of the six deductions (the latency
\* one strictly above 3000 ms), whatever the other fields hold; the scenario scores 89.
C6_ScoreIsDeductive ==
    pc = "done" =>
        /\ result.score = ScoreFormula(result)
        /\ IsScenario(result) => result.score = 89

C6_Witness == pc = "done" /\ IsScenario(result) /\ result.score = 89

\* C7: checkBrokenLinks with limit L attempts at most L links and returns at most L
\* issues, one per attempt at most; the brokenLinks of every report runAudit returns has
\* at most 3 entries.
C7_SampleLimitBoundsLinks ==
    /\ count <= limit
    /\ Cardinality(Ops({"link"})) <= count
    /\ Len(links) <= count
    /\ pc = "done" => Len(result.brokenLinks) <= 3

\* a report of a page with more than three anchors whose three sampled links are all broken
C7_Witness ==
    /\ pc = "done"
    /\ result.totalLinks > 3
    /\ Len(result.brokenLinks) = 3

\* an image raises at least one of the three flags
Qualifies(img) ==
    \/ img.alt \in {None, Some(""), Some("  ")}
    \/ img.src \notin {Some("a.webp"), Some("hero-large.webp"), Some("photo-original.webp")}
    \/ img.src \in {Some("hero-large.webp"), Some("big.png"), Some("photo-original.webp")}

\* the positions in the document of the images that raise a flag
Qualifying(doc) == { k \in 1..Len(doc.imgs) : Qualifies(doc.imgs[k]) }

\* the position of the j-th image that raises a flag
NthQualifying(doc, j) ==
    CHOOSE k \in Qualifying(doc) : Cardinality({ q \in Qualifying(doc) : q <= k }) = j

\* the markup stage of this invocation ran to its end
Analysed == html.len > 0 /\ pc \in {"links", "robots", "sitemap", "sitemap_index",
                                     "redirects", "score", "done"}
                        /\ result.error # Some("parse failed")

\* C8: imageIssues has at most 10 entries and at most totalImages; its j-th entry is the
\* j-th image of the document that raises a flag, and once the markup stage ran it holds
\* the first 10 of them, or all when they are fewer.
C8_ImageIssuesAreFirstTen ==
    pc = "done" =>
        /\ Len(result.imageIssues) <= 10
        /\ Len(result.imageIssues) <= result.totalImages
        /\ Len(result.imageIssues) <= Cardinality(Qualifying(html))
        /\ \A j \in 1..Len(result.imageIssues) :
              LET img == html.imgs[NthQualifying(html, j)]
                  issue == result.imageIssues[j]
              IN  /\ issue.src = (IF img.src = None THEN "" ELSE img.src[1])
                  /\ issue.alt \/ issue.missingFormats \/ issue.oversized
                  /\ issue.alt = (img.alt \in {None, Some(""), Some("  ")})
        /\ Analysed =>
              /\ result.totalImages = Len(html.imgs)
              /\ Len(result.imageIssues) = Min(10, Cardinality(Qualifying(html)))

\* a report of a page with more than ten flagged images, and an unflagged one among the
\* first ten
C8_Witness ==
    /\ pc = "done"
    /\ Len(result.imageIssues) = 10
    /\ Cardinality(Qualifying(html)) > 10
    /\ \E k \in 1..10 : k \notin Qualifying(html)

\* C9: after a successful fetch and parse no failure of an auxiliary probe sets error or
\* keeps the scorer from running: the report is returned with error null and the score
\* computed, a failed link probe shows as a broken-link entry without status code, a
\* failed robots or sitemap probe as a false flag, a failed www probe as no redirect issue.
C9_AuxFailuresAreAbsorbed ==
    /\ Analysed => result.error = None
    /\ (pc = "done" /\ Analysed) =>
          /\ result.score = ScoreFormula(result)
          /\ \A k \in Ops({"link"}) :
                netlog[k].out = "fail" =>
                    \E j \in 1..Len(result.brokenLinks) :
                        result.brokenLinks[j] =
                            [url |-> netlog[k].url, statusCode |-> None, broken |-> TRUE]
          /\ Failed({"robots"}) => ~result.hasRobots
          /\ Failed({"robots", "sitemap", "sitemap_index"}) => ~result.hasSitemap
          /\ Failed({"www"}) => result.redirects = <<>>

\* a report of an invocation in which a link probe, a sitemap probe and the www probe failed
C9_Witness ==
    /\ pc = "done"
    /\ Analysed
    /\ Failed({"link"}) /\ Failed({"sitemap_index"}) /\ Failed({"www"})
    /\ result.error = None
    /\ result.score > 0

\* the resource stage of this invocation is over
ResourcesDone == Ops({"robots"}) # {} /\ pc \in {"redirects", "score", "done"}

Succeeded(kinds) == \E k \in Ops(kinds) : netlog[k].out = "ok"

\* C10 (as claimed): hasRobots is true exactly when the robots probe returns a success
\* status, hasSitemap exactly when one of the two sitemap probes does, whatever the
\* outcome of the other probes.
C10_FlagsFollowTheirProbes ==
    ResourcesDone =>
        /\ result.hasRobots = Succeeded({"robots"})
        /\ result.hasSitemap = Succeeded({"sitemap", "sitemap_index"})

\* C11 (as claimed): a report returned with error null is a completed audit: the markup
\* stage, the link sampling, the resource probes and the redirect check ran, and score
\* is the scorer's formula on the report's own fields; also for an empty body.
C11_NoErrorMeansCompleted ==
    (pc = "done" /\ result.error = None) =>
        /\ Ops({"body"}) # {}
        /\ Ops({"robots"}) # {}
        /\ result.totalLinks = Len(page.hrefs)
        /\ result.score = ScoreFormula(result)

\* C12 (as claimed): when one auxiliary operation never responds, the invocation is not
\* held up by it: at every moment it has either returned its report or still has a step
\* it can take (so the other probes are still issued and the report is returned).
C12_HangBlocksNothing == pc = "done" \/ ENABLED Next

\* the request carries a string that parses as an absolute URL
ValidRequest ==
    /\ route.request # None
    /\ route.request[1].kind = "object"
    /\ route.request[1].url.type = "string"
    /\ route.request[1].url.str \in AbsoluteUrls

\* the request's body is JSON, and its url is missing, not a string, or malformed
InvalidUrlRequest ==
    /\ route.request # None
    /\ route.request[1].kind # "invalid"
    /\ ~ValidRequest

\* C13: the route calls runAudit at most once per request, and only with the request's
\* url when that is a non-empty string that parses as an absolute URL; the pipeline runs
\* only after that call. A request whose JSON body has a missing, non-string or malformed
\* url is answered with status 400 and an error body, with no call of runAudit and no
\* network operation (a body that is no JSON at all gets an error body too, without a call).
C13_RouteValidatesBeforeAudit ==
    /\ route.calls <= 1
    /\ route.calls = 1 =>
           /\ ValidRequest
           /\ targetUrl = route.request[1].url.str
           /\ targetUrl # ""
    /\ (pc \notin {"route", "responded"} \/ netlog # <<>>) => route.calls = 1
    /\ (route.request # None /\ ~ValidRequest) => route.calls = 0
    /\ (pc = "responded" /\ InvalidUrlRequest) =>
           /\ route.response[1].status = 400
           /\ route.response[1].errorBody # None
    /\ (pc = "responded" /\ route.calls = 0) => route.response[1].errorBody # None

C13_Witness ==
    /\ pc = "responded"
    /\ route.request[1].url = JsString("not a url")
    /\ route.response[1].status = 400
    /\ route.calls = 0
    /\ netlog = <<>>

\* the anchors of the document whose href resolves against the base URL
Resolvable(doc) ==
    { k \in 1..Len(doc.hrefs) : ResolveUrl(AttrOrEmpty(doc.hrefs[k]), targetUrl) # None }

\* the resolvable anchors whose resolved origin is not the origin of the base URL
ResolvableExternal(doc) ==
    { k \in Resolvable(doc) :
        OriginOf(ResolveUrl(AttrOrEmpty(doc.hrefs[k]), targetUrl)[1])
            # OriginOf(ParseUrl(targetUrl)[1]) }

\* C14 (as claimed): once the markup stage ran, totalLinks is the number of anchors whose
\* href resolves against the base URL, externalLinks the number of those whose resolved
\* origin differs from the base origin, and externalLinks <= totalLinks.
C14_UnresolvableLinksExcluded ==
    Analysed =>
        /\ result.totalLinks = Cardinality(Resolvable(html))
        /\ result.externalLinks = Cardinality(ResolvableExternal(html))
        /\ result.externalLinks <= result.totalLinks

\* the performance figures of a report
Figures(r) == <<r.ttfbMs, r.fcpMs, r.lcpMs>>

\* C15 (as claimed): the stages write the report in the order fetch, markup analysis,
\* image and link inspection, resource and redirect checks, performance estimate, score:
\* a step that writes ttfbMs, fcpMs or lcpMs is taken only when the auxiliary probes have
\* finished and the score is not yet computed, and the step that writes the score is the
\* last one to write the report.
C15_EstimateFollowsProbes ==
    [][ /\ Figures(result') # Figures(result) => pc = "score"
        /\ result'.score # result.score => pc = "score" /\ pc' = "done"
        /\ pc = "done" => result' = result ]_vars

\* the raw href of the k-th anchor of the walk ('' when the attribute is absent)
HrefAt(k) == AttrOrEmpty(anchors[k])

\* the positions among the first n anchors that hold the first occurrence of a raw href
\* that is non-empty and not fragment-only
Eligible(n) ==
    { k \in 1..n : /\ HrefAt(k) \notin {"", "#", "#top"}
                   /\ \A j \in 1..(k - 1) : HrefAt(j) # HrefAt(k) }

\* the probe of this href fails: its URL does not resolve, or the request is rejected
ProbeFails(href) == ResolveUrl(href, targetUrl) = None \/ HeadOutcome(href) = None

\* the attempts among the first n anchors that yield an issue
BadAttempts(n) ==
    { k \in Eligible(n) : ProbeFails(HrefAt(k)) \/ HeadOutcome(HrefAt(k))[1] >= 400 }

\* the j-th of them in document order
NthBadAttempt(n, j) ==
    CHOOSE k \in BadAttempts(n) : Cardinality({ m \in BadAttempts(n) : m <= k }) = j

\* the issue of the attempt at anchor k
IssueOfAttempt(k) ==
    [url |-> HrefAt(k),
     statusCode |-> IF ProbeFails(HrefAt(k)) THEN None ELSE HeadOutcome(HrefAt(k)),
     broken |-> TRUE]

\* the walk of checkBrokenLinks is in progress or over
Walking == pc \in {"probe", "returned", "links"}

\* C16: checkBrokenLinks walks the anchors in document order; the hrefs it has attempted
\* are exactly the first occurrences of non-empty, not fragment-only raw hrefs among the
\* anchors examined, each attempted once and each counted, whatever its outcome; no anchor
\* is examined once the limit is exhausted, so that on return exactly the first
\* min(limit, k) of the k distinct such hrefs were attempted. The issues are those of the
\* attempts with a status >= 400 (with the status code) or a failed probe (broken, no
\* status code), in order.
C16_ProberSamplesFirstDistinct ==
    Walking =>
        /\ i <= Len(anchors)
        /\ count = Cardinality(Eligible(i))
        /\ checked = { HrefAt(k) : k \in Eligible(i) }
        /\ Cardinality(checked) = count
        /\ count <= limit
        /\ i > 0 => Cardinality(Eligible(i - 1)) < limit
        /\ Len(links) = Cardinality(BadAttempts(i))
        /\ \A j \in 1..Len(links) : links[j] = IssueOfAttempt(NthBadAttempt(i, j))
        /\ \A a, b \in Ops({"link"}) : netlog[a].url = netlog[b].url => a = b
        /\ { netlog[a].url : a \in Ops({"link"}) }
               = { h \in checked : ResolveUrl(h, targetUrl) # None }
        /\ pc = "returned" =>
               /\ count = Min(limit, Cardinality(Eligible(Len(anchors))))
               /\ i = Len(anchors) \/ (count = limit /\ (i = 0 \/ i \in Eligible(i)))

\* a direct call with limit 2 on four anchors returned after its second attempt: a
\* repeated href was skipped, one issue carries a status code and one does not, and the
\* last anchor was not examined
C16_Witness ==
    /\ pc = "returned"
    /\ limit = 2
    /\ Len(anchors) = 4
    /\ i = 3
    /\ count = 2
    /\ HrefAt(1) = HrefAt(2)
    /\ Len(links) = 2
    /\ links[1].statusCode # None
    /\ links[2].statusCode = None

\* checkRedirects has returned
RedirectsRan == Analysed /\ pc \in {"score", "done"}

\* the host of the target URL does not begin with www
HostLacksWww == ParseUrl(targetUrl)[1].host[1] # "www"

\* the target URL with www. put before its host
WwwUrl ==
    UrlString(MkUrl(ParseUrl(targetUrl)[1].scheme,
                    <<"www">> \o ParseUrl(targetUrl)[1].host,
                    ParseUrl(targetUrl)[1].path))

\* the www probe answered, and its final URL is neither the www URL nor under the
\* origin of the target URL
WwwLedElsewhere ==
    \E k \in Ops({"www"}) :
        /\ netlog[k].out \notin {"fail", WwwUrl}
        /\ OriginOf(ParseUrl(netlog[k].out)[1]) # OriginOf(ParseUrl(targetUrl)[1])

\* C17: checkRedirects issues at most one probe, to the www variant of the target URL and
\* only when the target's host lacks the www prefix, and no probe of any other variant;
\* the list it returns has the single issue of type 'www' exactly when that probe
\* answered with a final URL that neither equals the www URL nor starts with the target's
\* origin, and is empty otherwise, in particular when the probe failed.
C17_RedirectCheckProbesWwwOnce ==
    /\ Cardinality(Ops({"www"})) <= 1
    /\ \A k \in Ops({"www"}) :
           HostLacksWww /\ netlog[k].url = WwwUrl /\ k = Len(netlog) /\ RedirectsRan
    /\ Len(result.redirects) <= 1
    /\ \A k \in 1..Len(result.redirects) : result.redirects[k].type = "www"
    /\ RedirectsRan =>
           /\ HostLacksWww <=> Ops({"www"}) # {}
           /\ result.redirects # <<>> <=> WwwLedElsewhere
    /\ ~RedirectsRan => result.redirects = <<>>

\* a report whose www probe was redirected to another site: one issue
C17_Witness ==
    /\ pc = "done"
    /\ \E k \in Ops({"www"}) : netlog[k].out = "https://other.example/x"
    /\ Len(result.redirects) = 1
    /\ result.redirects[1].type = "www"

\* min(bodyLength / 100, 500), in hundredths of a millisecond
TransferCost == IF page.len < 50000 THEN page.len ELSE 50000

\* C18: for every non-negative latency and body length the three figures are non-negative
\* integers; ttfbMs is max(latency - 50, 0), fcpMs is the integer nearest to
\* ttfb + min(bodyLength / 100, 500), lcpMs the rounding of that sum plus a jitter in
\* [0, 800), so that ttfbMs <= fcpMs <= ttfbMs + 500 and fcpMs <= lcpMs <= fcpMs + 800;
\* in every report ttfbMs <= fcpMs <= lcpMs.
C18_FiguresFollowTheEstimate ==
    /\ result.ttfbMs \in Nat /\ result.fcpMs \in Nat /\ result.lcpMs \in Nat
    /\ result.ttfbMs <= result.fcpMs
    /\ result.fcpMs <= result.lcpMs
    /\ pc = "estimated" =>
           /\ result.ttfbMs = (IF result.responseTimeMs[1] > 50
                               THEN result.responseTimeMs[1] - 50 ELSE 0)
           /\ 100 * result.fcpMs - 50 <= 100 * result.ttfbMs + TransferCost
           /\ 100 * result.ttfbMs + TransferCost < 100 * result.fcpMs + 50
           /\ result.fcpMs <= result.ttfbMs + 500
           /\ 100 * result.lcpMs + 50 > 100 * result.ttfbMs + TransferCost
           /\ 100 * result.lcpMs - 50 < 100 * result.ttfbMs + TransferCost + 80000
           /\ result.lcpMs <= result.fcpMs + 800

\* latency 1200 ms and a body of 5000 bytes: ttfb 1150, fcp 1200, and lcp at the top of
\* its range
C18_Witness ==
    /\ pc = "estimated"
    /\ result.responseTimeMs = Some(1200)
    /\ page.len = 5000
    /\ result.ttfbMs = 1150
    /\ result.fcpMs = 1200
    /\ result.lcpMs = 2000

====
